---- MODULE Spec2Model ----
(***************************************************************************)
(* Model of main.py, the orchestrator of the investigative workflow:       *)
(* validate_case_name, validate_investigation_exists, run_script, the six  *)
(* stage functions and the stage loop of main().                           *)
(***************************************************************************)
EXTENDS Integers, Sequences, FiniteSets, TLC

(* ------------------------------ bounds --------------------------------- *)
\* longest list of --stage options on the command line
MaxStages == 2
\* longest case name given to validate_case_name on its own
MaxNameLen == 3
\* largest exit status a child script returns
MaxExitCode == 2

(* ------------------------- program constants --------------------------- *)
\* number of entries of standard_subdirs
NumSubdirs == 18

\* choices of --stage
StageChoices == {"setup", "acquire", "datashare", "parse", "analyze", "package", "all"}

\* no value given for an optional selector (Python None)
None == "None"
\* an optional selector of the argparse namespace that has not been read yet
Unread == "Unread"

\* representatives of the choices of the four optional selectors: unset, all,
\* the one value a script is mapped to, and one value no script is mapped to
AcquireTypes == {None, "all", "irs_990s", "corporate"}
DatashareActions == {None, "all", "create_project", "upload"}
ParseTypes == {None, "all", "irs_990s", "corporate"}
ReportTypes == {None, "all", "connections", "network_graph"}

SelectorChoices(field) ==
    CASE field = "acquire_type" -> AcquireTypes
      [] field = "datashare_action" -> DatashareActions
      [] field = "parse_type" -> ParseTypes
      [] field = "report_type" -> ReportTypes

SelectorFields == {"acquire_type", "datashare_action", "parse_type", "report_type"}

(* --------------------------- validate_case_name ------------------------ *)
LowerCase == {"a", "b", "c", "d", "e", "f", "g", "h", "i", "j", "k", "l", "m",
              "n", "o", "p", "q", "r", "s", "t", "u", "v", "w", "x", "y", "z"}
UpperCase == {"A", "B", "C", "D", "E", "F", "G", "H", "I", "J", "K", "L", "M",
              "N", "O", "P", "Q", "R", "S", "T", "U", "V", "W", "X", "Y", "Z"}
Digits == {"0", "1", "2", "3", "4", "5", "6", "7", "8", "9"}
\* the character class [a-zA-Z0-9_.-]
AllowedChars == LowerCase \cup UpperCase \cup Digits \cup {"_", ".", "-"}

\* every character of s[1..n] is in the class
AllAllowed(s, n) == \A k \in 1..n : s[k] \in AllowedChars

\* re.match(r"^[a-zA-Z0-9_.-]+$", s): one or more class characters from the
\* start, then $, which matches at the end of the string and also just
\* before a newline that is the last character of the string
RegexMatch(s) ==
    \/ Len(s) >= 1 /\ AllAllowed(s, Len(s))
    \/ Len(s) >= 2 /\ s[Len(s)] = "\n" /\ AllAllowed(s, Len(s) - 1)

\* variant: any period is taken for a traversal segment
HasDotDot_AnyDot(s) == \E k \in 1..Len(s) : s[k] = "."

\* ".." in s
HasDotDot(s) == \E k \in 1..(Len(s) - 1) : s[k] = "." /\ s[k + 1] = "."

\* TRUE when validate_case_name returns True, FALSE when it raises
\* InvalidCaseNameError
validate_case_name(s) ==
    /\ Len(s) > 0
    /\ RegexMatch(s)
    /\ ~HasDotDot(s)

\* case names given on the command line: empty, plain, with a path
\* separator, a traversal segment, and with a trailing line terminator
CaseNames == {<<>>, <<"a">>, <<"a", "/">>, <<".", ".">>, <<"a", "\n">>}

(* ------------------------------ inputs --------------------------------- *)
RECURSIVE SeqsUpTo(_, _)
\* all sequences over S of length 1..n
SeqsUpTo(S, n) ==
    IF n = 0 THEN {}
    ELSE LET shorter == SeqsUpTo(S, n - 1)
         IN  {<<x>> : x \in S} \cup shorter \cup
             {Append(q, x) : q \in shorter, x \in S}

StageLists == SeqsUpTo(StageChoices, MaxStages)

\* the directories of one case: 0 is investigations/<case_name>, 1..NumSubdirs
\* are the entries of standard_subdirs in list order
AllDirs == 0..NumSubdirs

(* --------------------------- pure helpers ------------------------------ *)
\* variant: only the first requested name is tested for all
StagesToRunOrdered_FirstOnly(input) ==
    IF input[1] = "all"
    THEN <<"setup", "acquire", "datashare", "parse", "analyze", "package">>
    ELSE input

\* variant: the requested stages are put in canonical order, each once
StagesToRunOrdered_Sorted(input) ==
    IF \E k \in 1..Len(input) : input[k] = "all"
    THEN <<"setup", "acquire", "datashare", "parse", "analyze", "package">>
    ELSE SelectSeq(<<"setup", "acquire", "datashare", "parse", "analyze", "package">>,
                   LAMBDA st : \E k \in 1..Len(input) : input[k] = st)

\* main(): the stage sequence the loop iterates over
StagesToRunOrdered(input) ==
    IF \E k \in 1..Len(input) : input[k] = "all"
    THEN <<"setup", "acquire", "datashare", "parse", "analyze", "package">>
    ELSE input

\* variant: no stage is skipped
SkipStage_NoSkip(workflow_success, stage_name) == FALSE

\* variant: acquire is exempt from skipping as setup is
SkipStage_AcquireExempt(workflow_success, stage_name) ==
    ~workflow_success /\ stage_name \notin {"setup", "acquire"}

\* main(): the test that skips a stage after a failure in a preceding stage
SkipStage(workflow_success, stage_name) ==
    ~workflow_success /\ stage_name \notin {"setup"}

\* variant: the flag is assigned the result of the stage that just ran
WorkflowSuccessAfter_Reset(workflow_success, ok) == ok

\* variant: a failed stage leaves the flag as it was
WorkflowSuccessAfter_Ignore(workflow_success, ok) == workflow_success

\* main(): overall_workflow_success after a stage that succeeded (ok) or
\* raised (~ok); both except clauses assign False
WorkflowSuccessAfter(workflow_success, ok) ==
    IF ok THEN workflow_success ELSE FALSE

\* main(): the exit status at the end of the run
ExitStatus(workflow_success) == IF workflow_success THEN 0 ELSE 1

\* variant: the os.path.isdir test is left out
validate_investigation_exists_NameOnly(name, fs) == validate_case_name(name)

\* validate_investigation_exists
validate_investigation_exists(name, fs) ==
    validate_case_name(name) /\ 0 \in fs

\* variant: the fetch script is run for every source type
AcquireScripts_Always(source_type) == <<"scraping/fetch_irs_990_forms.py">>

\* stage_1_acquire_source_documents: scripts_to_run
AcquireScripts(source_type) ==
    IF source_type \in {"irs_990s", "all", None}
    THEN <<"scraping/fetch_irs_990_forms.py">> ELSE <<>>

\* stage_2_datashare_processing: actions_to_perform
DatashareScripts(action) ==
    IF action \in {"create_project", "all", None}
    THEN <<"datashare_interactions/create_datashare_project.py">> ELSE <<>>

\* stage_3_parse_and_structure_data: scripts_to_run, then the entity
\* resolution call that follows the loop
ParseScripts(document_type) ==
    (IF document_type \in {"irs_990s", "all", None}
     THEN <<"parsers/parse_irs_990xml.py">> ELSE <<>>)
    \o (IF document_type \in {"all", None}
        THEN <<"analysis/entity_resolution.py">> ELSE <<>>)

\* stage_4_analysis_and_reporting: scripts_to_run
AnalyzeScripts(report_type) ==
    IF report_type \in {"connections", "all", None}
    THEN <<"analysis/generate_connections_report.py">> ELSE <<>>

\* stage_5_package_for_review runs no script
PackageScripts(unused) == <<>>

\* variant: a script that failed is run again
RemainingAfter_Retry(scripts, ok) == IF ok THEN Tail(scripts) ELSE scripts

\* variant: the stage stops at the first script that failed
RemainingAfter_StopOnFailure(scripts, ok) == IF ok THEN Tail(scripts) ELSE <<>>

\* the for loops of the stage functions: the scripts still to run after one
\* run_script call returned (ok) or raised ScriptExecutionError (~ok)
RemainingAfter(scripts, ok) == Tail(scripts)

\* variant: the result of the last script is the result of the stage
StageSuccessAfter_LastOnly(stage_success, ok) == ok

\* the stage functions: overall_stage_success after one run_script call
StageSuccessAfter(stage_success, ok) == stage_success /\ ok

\* variant: the timeout handler does not kill the child
RunningAfterKill_NoKill(procs, child) == procs

\* run_script, except subprocess.TimeoutExpired: process.kill() and
\* process.communicate() leave the child terminated and reaped
RunningAfterKill(procs, child) == procs \ {child}

\* run_script: Popen.communicate returned, the child has exited
RunningAfterExit(procs, child) == procs \ {child}

\* run_script, except Exception: the handler logs and raises; it neither
\* kills the child nor waits for it
RunningAfterException(procs, child) == procs

(* ------------------------------- state --------------------------------- *)
VARIABLES
    case_name,                \* args.case_name, a sequence of characters
    stages_to_run_input,      \* args.stage, until main() has expanded it
    args,                     \* the optional selectors of the argparse namespace
    dirs,                     \* directories of the case that exist
    pc,                       \* position in main()
    stages_to_run_ordered,
    stage_index,              \* position of the for loop in stages_to_run_ordered
    overall_workflow_success,
    pending,                  \* scripts the running stage has still to run
    overall_stage_success,
    rs_pc,                    \* position in run_script
    calls,                    \* one record per run_script call of the run
    running,                  \* children launched and not terminated (indices of calls)
    results,                  \* one record per stage the loop has finished with
    exit_code                 \* process exit status, -1 while running

vars == <<case_name, stages_to_run_input, args, dirs, pc, stages_to_run_ordered,
          stage_index, overall_workflow_success, pending, overall_stage_success,
          rs_pc, calls, running, results, exit_code>>

inputs == <<case_name, stages_to_run_input>>
stage_vars == <<pending, overall_stage_success>>
loop_vars == <<stage_index, overall_workflow_success, results>>

\* the stage the loop is at
stage_name == stages_to_run_ordered[stage_index]

InLoop == pc = "loop" /\ stage_index <= Len(stages_to_run_ordered)

\* the child run_script is waiting for
current_child == Len(calls)

Init ==
    /\ case_name \in CaseNames
    /\ stages_to_run_input \in StageLists
    /\ args = [f \in SelectorFields |-> Unread]
    /\ dirs \in {{}, AllDirs}
    /\ pc = "start"
    /\ stages_to_run_ordered = <<>>
    /\ stage_index = 1
    /\ overall_workflow_success = TRUE
    /\ pending = <<>>
    /\ overall_stage_success = TRUE
    /\ rs_pc = "idle"
    /\ calls = <<>>
    /\ running = {}
    /\ results = <<>>
    /\ exit_code = -1

(* ------------------------------ main() --------------------------------- *)
\* main(): validate_case_name, sys.exit(1) on InvalidCaseNameError, else the
\* expansion of the stage list and the initialisation of the loop. Nothing
\* reads args.stage after this step, so the model drops its value here
Main_Start ==
    /\ pc = "start"
    /\ IF validate_case_name(case_name)
       THEN /\ stages_to_run_ordered' = StagesToRunOrdered(stages_to_run_input)
            /\ overall_workflow_success' = TRUE
            /\ pc' = "loop"
            /\ UNCHANGED exit_code
       ELSE /\ exit_code' = 1
            /\ pc' = "exited"
            /\ UNCHANGED <<stages_to_run_ordered, overall_workflow_success>>
    /\ stages_to_run_input' = <<>>
    /\ UNCHANGED <<case_name, args, dirs, stage_index, stage_vars, rs_pc, calls,
                   running, results>>

\* main(): the end of one loop iteration. ok: the stage function returned
\* True; ~ok: it returned False or raised, and an except clause ran
FinishStage(ok, cause, called, checked) ==
    /\ results' = Append(results,
                         [stage |-> stage_name,
                          outcome |-> IF ok THEN "succeeded" ELSE "failed",
                          cause |-> cause,
                          called |-> called,
                          checked |-> checked])
    /\ overall_workflow_success' = WorkflowSuccessAfter(overall_workflow_success, ok)
    /\ stage_index' = stage_index + 1
    /\ pc' = "loop"
    /\ pending' = <<>>
    /\ overall_stage_success' = TRUE

\* main(): a stage is skipped because a preceding stage failed
Main_SkipStage ==
    /\ InLoop
    /\ SkipStage(overall_workflow_success, stage_name)
    /\ results' = Append(results,
                         [stage |-> stage_name, outcome |-> "skipped",
                          cause |-> "prior_failure", called |-> FALSE,
                          checked |-> FALSE])
    /\ stage_index' = stage_index + 1
    /\ UNCHANGED <<inputs, args, dirs, pc, stages_to_run_ordered,
                   overall_workflow_success, stage_vars, rs_pc, calls, running,
                   exit_code>>

\* main(), except Exception: an error outside the OrchestratorError
\* hierarchy is raised while the stage is dispatched
Main_UnexpectedError ==
    /\ InLoop
    /\ ~SkipStage(overall_workflow_success, stage_name)
    /\ FinishStage(FALSE, "unexpected", TRUE, FALSE)
    /\ UNCHANGED <<inputs, args, dirs, stages_to_run_ordered, rs_pc, calls,
                   running, exit_code>>

\* main(): the loop is over; the summary is logged and the process exits
Main_Finish ==
    /\ pc = "loop"
    /\ stage_index > Len(stages_to_run_ordered)
    /\ exit_code' = ExitStatus(overall_workflow_success)
    /\ pc' = "exited"
    /\ UNCHANGED <<inputs, args, dirs, stages_to_run_ordered, loop_vars,
                   stage_vars, rs_pc, calls, running>>

(* ------------------------------ stages --------------------------------- *)
\* variant: os.makedirs without exist_ok=True
MakedirsFails_NoExistOk(fs, d, io_error) == d \in fs \/ io_error

\* os.makedirs(path, exist_ok=True) raises OSError: only when the directory
\* has to be created and the creation meets an I/O error; a directory that
\* is there already is not an error
MakedirsFails(fs, d, io_error) == d \notin fs /\ io_error

\* variant: nothing is created
Makedirs_Nothing(fs, d) == fs

\* the directories after os.makedirs of directory d returned
Makedirs(fs, d) == fs \cup {d}

RECURSIVE SetupWalk(_, _, _)
\* stage_0_setup_investigation from directory d on, with an I/O error met at
\* directory fail_at (-1: none): the directories left behind and the result
SetupWalk(fs, d, fail_at) ==
    IF d > NumSubdirs THEN [fs |-> fs, ok |-> TRUE, cause |-> "none"]
    ELSE IF MakedirsFails(fs, d, d = fail_at)
         THEN [fs |-> fs, ok |-> FALSE,
               cause |-> IF d \in fs THEN "file_exists" ELSE "setup_error"]
         ELSE SetupWalk(Makedirs(fs, d), d + 1, fail_at)

\* stage_0_setup_investigation, called from main(): validate_case_name, then
\* os.makedirs of the base directory and of every standard subdirectory in
\* order; an OSError at a directory leaves the directories before it created
\* and is raised as SetupError
Stage0_Setup ==
    /\ InLoop
    /\ stage_name = "setup"
    /\ ~SkipStage(overall_workflow_success, stage_name)
    /\ IF ~validate_case_name(case_name)
       THEN /\ FinishStage(FALSE, "setup_error", TRUE, FALSE)
            /\ UNCHANGED dirs
       ELSE \E fail_at \in AllDirs \cup {-1} :
               LET walk == SetupWalk(dirs, 0, fail_at)
               IN  /\ dirs' = walk.fs
                   /\ FinishStage(walk.ok, walk.cause, TRUE, FALSE)
    /\ UNCHANGED <<inputs, args, stages_to_run_ordered, rs_pc, calls, running,
                   exit_code>>

\* the values an optional selector can have when it is read: argparse fixed
\* it before the run, so a selector read before keeps its value
SelectorValues(field) ==
    IF args[field] = Unread THEN SelectorChoices(field) ELSE {args[field]}

\* the head of a stage function with selector value v and resolved script
\* list scripts: the directory check, then either the return of a stage that
\* has nothing to run or the entry into its script loop
EnterStage(field, v, scripts) ==
    /\ args' = IF field \in SelectorFields THEN [args EXCEPT ![field] = v] ELSE args
    /\ IF ~validate_investigation_exists(case_name, dirs)
       THEN FinishStage(FALSE, "no_directory", TRUE, TRUE)
       ELSE IF scripts = <<>>
            THEN FinishStage(TRUE, "none", TRUE, TRUE)
            ELSE /\ pc' = "stage"
                 /\ pending' = scripts
                 /\ overall_stage_success' = TRUE
                 /\ UNCHANGED loop_vars
    /\ UNCHANGED <<inputs, dirs, stages_to_run_ordered, rs_pc, calls, running,
                   exit_code>>

\* the guard of the dispatch of a stage other than setup
Dispatch(name) ==
    /\ InLoop
    /\ stage_name = name
    /\ ~SkipStage(overall_workflow_success, stage_name)

Stage1_Acquire ==
    /\ Dispatch("acquire")
    /\ \E v \in SelectorValues("acquire_type") :
          EnterStage("acquire_type", v, AcquireScripts(v))

Stage2_Datashare ==
    /\ Dispatch("datashare")
    /\ \E v \in SelectorValues("datashare_action") :
          EnterStage("datashare_action", v, DatashareScripts(v))

Stage3_Parse ==
    /\ Dispatch("parse")
    /\ \E v \in SelectorValues("parse_type") :
          EnterStage("parse_type", v, ParseScripts(v))

Stage4_Analyze ==
    /\ Dispatch("analyze")
    /\ \E v \in SelectorValues("report_type") :
          EnterStage("report_type", v, AnalyzeScripts(v))

Stage5_Package ==
    /\ Dispatch("package")
    /\ EnterStage("none", None, PackageScripts(None))

(* ----------------------------- run_script ------------------------------ *)
ExitCodes == 0..MaxExitCode

\* variant: the os.path.isfile test is left out
Launches_Always(isfile) == TRUE

\* run_script: the script is launched only when os.path.isfile is true
Launches(isfile) == isfile

\* variant: the return code is not looked at
Outcome_AlwaysSuccess(returncode) == "Success"

\* run_script: the outcome of a child that exited with process.returncode
Outcome(returncode) == IF returncode # 0 THEN "NonZeroExit" ELSE "Success"

\* run_script: the return code named in the ScriptExecutionError message
ReportedCode(returncode) == returncode

\* the record of a run_script call: the script, the stage that made the
\* call, what os.path.isfile returned, whether a child was started, whether
\* the timeout elapsed, the outcome, the child's exit status (-1: none) and
\* the status the runner reported (-1: none)
Call(script, isfile, launched, outcome) ==
    [script |-> script, stage |-> stage_index, isfile |-> isfile,
     launched |-> launched, expired |-> FALSE, outcome |-> outcome,
     returncode |-> -1, code |-> -1]

\* the stage function after a run_script call returned (ok) or raised
\* ScriptExecutionError (~ok): the next script of the stage, or the return of
\* overall_stage_success to main() after the last one
AfterScript(ok) ==
    LET rest == RemainingAfter(pending, ok)
        success == StageSuccessAfter(overall_stage_success, ok)
    IN  /\ rs_pc' = "idle"
        /\ IF rest = <<>>
           THEN FinishStage(success, IF success THEN "none" ELSE "script_failure",
                            TRUE, TRUE)
           ELSE /\ pending' = rest
                /\ overall_stage_success' = success
                /\ UNCHANGED <<pc, loop_vars>>

\* run_script: os.path.isfile is false, ScriptExecutionError without a launch
RunScript_NotFound ==
    /\ pc = "stage" /\ rs_pc = "idle"
    /\ \E isfile \in BOOLEAN :
          /\ ~Launches(isfile)
          /\ calls' = Append(calls, Call(Head(pending), isfile, FALSE, "NotFound"))
    /\ AfterScript(FALSE)
    /\ UNCHANGED <<inputs, args, dirs, stages_to_run_ordered, running, exit_code>>

\* run_script: subprocess.Popen raises (FileNotFoundError or another
\* exception), no child exists
RunScript_LaunchError ==
    /\ pc = "stage" /\ rs_pc = "idle"
    /\ \E isfile \in BOOLEAN :
          /\ Launches(isfile)
          /\ calls' = Append(calls, Call(Head(pending), isfile, FALSE, "LaunchError"))
    /\ AfterScript(FALSE)
    /\ UNCHANGED <<inputs, args, dirs, stages_to_run_ordered, running, exit_code>>

\* run_script: subprocess.Popen starts the child, communicate() waits
RunScript_Launch ==
    /\ pc = "stage" /\ rs_pc = "idle"
    /\ \E isfile \in BOOLEAN :
          /\ Launches(isfile)
          /\ calls' = Append(calls, Call(Head(pending), isfile, TRUE, "Pending"))
    /\ running' = running \cup {Len(calls) + 1}
    /\ rs_pc' = "communicate"
    /\ UNCHANGED <<inputs, args, dirs, pc, stages_to_run_ordered, loop_vars,
                   stage_vars, exit_code>>

\* run_script: the child exits with some status before the timeout and
\* communicate() returns
RunScript_ChildExit ==
    /\ pc = "stage" /\ rs_pc = "communicate"
    /\ \E status \in ExitCodes :
          /\ calls' = [calls EXCEPT ![current_child] =
                          [@ EXCEPT !.returncode = status,
                                    !.outcome = Outcome(status),
                                    !.code = ReportedCode(status)]]
          /\ running' = RunningAfterExit(running, current_child)
          /\ AfterScript(Outcome(status) = "Success")
    /\ UNCHANGED <<inputs, args, dirs, stages_to_run_ordered, exit_code>>

\* run_script: the timeout elapses with the child still running and
\* communicate() raises subprocess.TimeoutExpired
RunScript_TimeoutExpired ==
    /\ pc = "stage" /\ rs_pc = "communicate"
    /\ current_child \in running
    /\ calls' = [calls EXCEPT ![current_child].expired = TRUE]
    /\ rs_pc' = "timeout"
    /\ UNCHANGED <<inputs, args, dirs, pc, stages_to_run_ordered, loop_vars,
                   stage_vars, running, exit_code>>

\* run_script, except subprocess.TimeoutExpired: kill, communicate, raise
RunScript_KillOnTimeout ==
    /\ pc = "stage" /\ rs_pc = "timeout"
    /\ calls' = [calls EXCEPT ![current_child].outcome = "TimedOut"]
    /\ running' = RunningAfterKill(running, current_child)
    /\ AfterScript(FALSE)
    /\ UNCHANGED <<inputs, args, dirs, stages_to_run_ordered, exit_code>>

\* run_script, except Exception: communicate() raises an exception other
\* than TimeoutExpired while the child runs
RunScript_OtherException ==
    /\ pc = "stage" /\ rs_pc = "communicate"
    /\ calls' = [calls EXCEPT ![current_child].outcome = "Error"]
    /\ running' = RunningAfterException(running, current_child)
    /\ AfterScript(FALSE)
    /\ UNCHANGED <<inputs, args, dirs, stages_to_run_ordered, exit_code>>

\* a child that run_script no longer waits for terminates by itself
Child_Terminates ==
    /\ \E c \in running :
          /\ rs_pc = "idle" \/ c # current_child
          /\ running' = running \ {c}
    /\ UNCHANGED <<inputs, args, dirs, pc, stages_to_run_ordered, loop_vars,
                   stage_vars, rs_pc, calls, exit_code>>

(* --------------------------- specification ----------------------------- *)
Next ==
    \/ Main_Start
    \/ Main_SkipStage
    \/ Main_UnexpectedError
    \/ Main_Finish
    \/ Stage0_Setup
    \/ Stage1_Acquire
    \/ Stage2_Datashare
    \/ Stage3_Parse
    \/ Stage4_Analyze
    \/ Stage5_Package
    \/ RunScript_NotFound
    \/ RunScript_LaunchError
    \/ RunScript_Launch
    \/ RunScript_ChildExit
    \/ RunScript_TimeoutExpired
    \/ RunScript_KillOnTimeout
    \/ RunScript_OtherException
    \/ Child_Terminates

Spec == Init /\ [][Next]_vars

\* the steps of the orchestrator process itself. It is one thread that never
\* blocks without a bound: communicate(timeout) returns or raises, so the
\* process takes its next step whenever it has one
Progress ==
    \/ Main_Start
    \/ Main_SkipStage
    \/ Main_UnexpectedError
    \/ Main_Finish
    \/ Stage0_Setup
    \/ Stage1_Acquire
    \/ Stage2_Datashare
    \/ Stage3_Parse
    \/ Stage4_Analyze
    \/ Stage5_Package
    \/ RunScript_NotFound
    \/ RunScript_LaunchError
    \/ RunScript_Launch
    \/ RunScript_ChildExit
    \/ RunScript_TimeoutExpired
    \/ RunScript_KillOnTimeout
    \/ RunScript_OtherException

FairSpec == Spec /\ WF_vars(Progress)

(* ---------------------- validate_case_name on its own ------------------ *)
\* characters of the names tried: one of each class of the pattern, the two
\* path separators, a blank and a line terminator
Alphabet == {"a", "Z", "7", "_", ".", "-", "/", "\\", " ", "\n"}

NameStrings == {<<>>} \cup SeqsUpTo(Alphabet, MaxNameLen)

InitValidator ==
    /\ case_name \in NameStrings
    /\ pc = "validate"
    /\ stages_to_run_input = <<>>
    /\ args = [f \in SelectorFields |-> Unread]
    /\ dirs = {}
    /\ stages_to_run_ordered = <<>>
    /\ stage_index = 1
    /\ overall_workflow_success = TRUE
    /\ pending = <<>>
    /\ overall_stage_success = TRUE
    /\ rs_pc = "idle"
    /\ calls = <<>>
    /\ running = {}
    /\ results = <<>>
    /\ exit_code = -1

\* one call of validate_case_name: it returns True (accepted) or raises
\* InvalidCaseNameError (rejected)
Validate_Call ==
    /\ pc = "validate"
    /\ pc' = IF validate_case_name(case_name) THEN "accepted" ELSE "rejected"
    /\ UNCHANGED <<inputs, args, dirs, stages_to_run_ordered, loop_vars,
                   stage_vars, rs_pc, calls, running, exit_code>>

ValidatorSpec == InitValidator /\ [][Validate_Call]_vars

(* ------------------------- derived observations ----------------------- *)
Canonical == <<"setup", "acquire", "datashare", "parse", "analyze", "package">>

HasAll(input) == \E k \in 1..Len(input) : input[k] = "all"

\* the stages the loop has finished with, in order
Processed == [k \in 1..Len(results) |-> results[k].stage]

\* a stage before position k of the run has failed
FailedBefore(k) == \E j \in 1..(k - 1) : results[j].outcome = "failed"

\* the run_script calls made by the stage at position k of the run
CallsOfStage(k) == SelectSeq(calls, LAMBDA c : c.stage = k)

\* the scripts of those calls, in call order
ScriptsOfStage(k) == [n \in 1..Len(CallsOfStage(k)) |-> CallsOfStage(k)[n].script]

\* the loop goes through stages_to_run_ordered front to back, one stage per
\* iteration, and has gone through all of it when the summary is reached
ProcessedInOrder ==
    /\ Len(results) <= Len(stages_to_run_ordered)
    /\ \A k \in 1..Len(results) : results[k].stage = stages_to_run_ordered[k]
    /\ pc = "stage" => stage_index = Len(results) + 1
    /\ (pc = "exited" /\ stages_to_run_ordered # <<>>)
          => Len(results) = Len(stages_to_run_ordered)

\* the case name rules of the specification: not empty, only characters of
\* [A-Za-z0-9_.-], no ".." anywhere
NameAllowed(s) ==
    /\ Len(s) > 0
    /\ \A k \in 1..Len(s) :
          s[k] \in {"_", ".", "-"} \/ s[k] \in LowerCase \cup UpperCase \cup Digits
    /\ \A k \in 1..Len(s) : k < Len(s) => ~(s[k] = "." /\ s[k + 1] = ".")

(* ------------------------------- claims -------------------------------- *)
\* C1: once a stage of the run has failed, every later stage other than setup
\* is skipped: its stage function is not called, it makes no directory check
\* and no run_script call, and it is neither failed nor succeeded; a later
\* setup is still attempted. No stage is inside its script loop after a failure.
C1_SkipAfterFailure ==
    /\ \A k \in 1..Len(results) :
          FailedBefore(k) =>
             IF results[k].stage = "setup"
             THEN results[k].outcome # "skipped" /\ results[k].called
             ELSE /\ results[k].outcome = "skipped"
                  /\ ~results[k].called
                  /\ ~results[k].checked
                  /\ CallsOfStage(k) = <<>>
    /\ pc = "stage" => ~FailedBefore(stage_index)

\* requested [acquire, parse]: acquire failed and parse was skipped
C1_Witness ==
    /\ Len(results) = 2
    /\ results[1].stage = "acquire" /\ results[1].outcome = "failed"
    /\ results[2].stage = "parse" /\ results[2].outcome = "skipped"

\* C2: the exit code is 0 exactly when the case name is valid (by the rules
\* of the specification) and no attempted stage failed, and 1 otherwise.
C2_ExitCode ==
    pc = "exited" =>
       /\ exit_code \in {0, 1}
       /\ exit_code = 0 <=>
             /\ NameAllowed(case_name)
             /\ \A k \in 1..Len(results) : results[k].outcome # "failed"

\* C3 as stated: after a setup that failed (SetupError) a later acquire of
\* the same run is still attempted.
C3_AcquireAfterFailedSetup ==
    \A j, k \in 1..Len(results) :
       (/\ j < k
        /\ results[j].stage = "setup" /\ results[j].outcome = "failed"
        /\ results[j].cause = "setup_error"
        /\ results[k].stage = "acquire")
       => results[k].outcome # "skipped"

\* C3 amended: after a failed setup a later acquire of the same run is
\* skipped, its stage function is not called.
C3_AcquireSkippedAfterFailedSetup ==
    \A j, k \in 1..Len(results) :
       (/\ j < k
        /\ results[j].stage = "setup" /\ results[j].outcome = "failed"
        /\ results[k].stage = "acquire")
       => results[k].outcome = "skipped" /\ ~results[k].called

\* requested [setup, acquire]: setup failed on a directory, acquire was skipped
C3_Witness ==
    /\ Len(results) = 2
    /\ results[1].stage = "setup" /\ results[1].cause = "setup_error"
    /\ results[2].stage = "acquire" /\ results[2].outcome = "skipped"

\* C4: when the requested list contains all, main() makes the loop sequence
\* setup, acquire, datashare, parse, analyze, package, and the loop goes
\* through exactly that sequence in that order, each stage once.
C4_AllIsCanonical ==
    /\ [][(/\ pc = "start"
           /\ validate_case_name(case_name)
           /\ HasAll(stages_to_run_input))
          => stages_to_run_ordered' = Canonical]_vars
    /\ []ProcessedInOrder

\* a run of the six canonical stages has reached its summary; the command
\* line holds at most MaxStages names, so the six came from all
C4_Witness ==
    /\ pc = "exited"
    /\ Len(stages_to_run_ordered) > MaxStages
    /\ Processed = Canonical

\* C5: when the requested list does not contain all, the loop sequence is the
\* requested list itself, same order and same multiplicity, and the loop goes
\* through exactly that sequence.
C5_NamedOrderKept ==
    /\ [][(/\ pc = "start"
           /\ validate_case_name(case_name)
           /\ ~HasAll(stages_to_run_input))
          => stages_to_run_ordered' = stages_to_run_input]_vars
    /\ []ProcessedInOrder

\* requested [parse, acquire]: parse was processed before acquire
C5_Witness ==
    /\ pc = "exited"
    /\ stages_to_run_ordered = <<"parse", "acquire">>
    /\ Processed = <<"parse", "acquire">>
    /\ results[1].outcome = "succeeded"

\* C6: while the investigation directory does not exist, no run_script call
\* has been made, no stage is inside its script loop, and every stage other
\* than setup that was attempted has failed. (Directories are only ever
\* created, so the directory is missing at the start of every stage the
\* loop has handled so far.)
C6_NoDirectoryNoChild ==
    0 \notin dirs =>
       /\ calls = <<>>
       /\ running = {}
       /\ pc # "stage"
       /\ \A k \in 1..Len(results) :
             (results[k].stage # "setup" /\ results[k].outcome # "skipped")
                => results[k].outcome = "failed"

\* a parse stage failed on the directory check
C6_Witness ==
    /\ 0 \notin dirs
    /\ \E k \in 1..Len(results) :
          /\ results[k].stage = "parse"
          /\ results[k].cause = "no_directory"
          /\ results[k].outcome = "failed"

\* C7: at most one child launched by the orchestrator is running.
C7_AtMostOneChild == Cardinality(running) <= 1

\* C8: a call whose timeout elapsed ends as TimedOut, its child is not
\* running once run_script has returned, and its stage is failed.
C8_TimeoutKills ==
    \A c \in 1..Len(calls) :
       calls[c].expired =>
          /\ calls[c].outcome \in {"Pending", "TimedOut"}
          /\ calls[c].outcome = "Pending" => (rs_pc = "timeout" /\ c = current_child)
          /\ calls[c].outcome = "TimedOut" =>
                /\ c \notin running
                /\ calls[c].stage <= Len(results)
                      => results[calls[c].stage].outcome = "failed"

\* a call has timed out and run_script has returned
C8_Witness ==
    \E c \in 1..Len(calls) :
       /\ calls[c].outcome = "TimedOut"
       /\ rs_pc = "idle"
       /\ calls[c].stage <= Len(results)

\* C9: one execution of a stage runs a script at most once, and a script
\* whose call did not succeed is not run again later in the run.
C9_NoRetry ==
    \A a, b \in 1..Len(calls) :
       a < b =>
          /\ calls[a].stage = calls[b].stage => calls[a].script # calls[b].script
          /\ calls[a].outcome \notin {"Success", "Pending"}
                => calls[a].script # calls[b].script

\* requested [acquire, acquire]: the fetch script timed out in the first
\* acquire and the run ended without a second call
C9_Witness ==
    /\ pc = "exited"
    /\ stages_to_run_ordered = <<"acquire", "acquire">>
    /\ Len(calls) = 1
    /\ calls[1].outcome = "TimedOut"

\* C10: a parse stage that passed the directory check has run the entity
\* resolution script exactly when the sub-selector is all or unset, as its
\* last call and after the parse script, whatever the parse script's outcome.
C10_EntityResolution ==
    \A k \in 1..Len(results) :
       (results[k].stage = "parse" /\ results[k].cause \in {"none", "script_failure"})
       => LET ran == ScriptsOfStage(k)
              er == "analysis/entity_resolution.py"
              px == "parsers/parse_irs_990xml.py"
          IN  /\ (\E n \in 1..Len(ran) : ran[n] = er)
                    <=> args["parse_type"] \in {"all", None}
              /\ \A n \in 1..Len(ran) : ran[n] = er => n = Len(ran)
              /\ args["parse_type"] \in {"all", None} => ran = <<px, er>>

\* the parse script exited non-zero and entity resolution was run after it
C10_Witness ==
    /\ Len(results) >= 1
    /\ results[1].stage = "parse"
    /\ Len(calls) = 2
    /\ calls[1].script = "parsers/parse_irs_990xml.py"
    /\ calls[1].outcome = "NonZeroExit"
    /\ calls[2].script = "analysis/entity_resolution.py"
    /\ calls[2].outcome = "Success"

\* the number of scripts a stage with its sub-selector has to run, read off
\* the stage functions' selector tests
ExpectedCalls(stage) ==
    CASE stage = "acquire" ->
            IF args["acquire_type"] \in {"irs_990s", "all", None} THEN 1 ELSE 0
      [] stage = "datashare" ->
            IF args["datashare_action"] \in {"create_project", "all", None} THEN 1 ELSE 0
      [] stage = "parse" ->
            IF args["parse_type"] \in {"all", None} THEN 2
            ELSE IF args["parse_type"] = "irs_990s" THEN 1 ELSE 0
      [] stage = "analyze" ->
            IF args["report_type"] \in {"connections", "all", None} THEN 1 ELSE 0
      [] OTHER -> 0

\* C11: the scripts of a stage are run one after the other; a stage that
\* passed its directory check has run every script of its list whatever the
\* earlier ones returned; it succeeded exactly when every call returned
\* Success; a failed call makes the stage fail as a script failure and is
\* never recorded as an unexpected error.
C11_StageRunsAllScripts ==
    /\ \A a, b \in 1..Len(calls) : a < b => calls[a].outcome # "Pending"
    /\ \A k \in 1..Len(results) :
          (results[k].stage # "setup" /\ results[k].cause \in {"none", "script_failure"})
          => /\ Len(CallsOfStage(k)) = ExpectedCalls(results[k].stage)
             /\ \A n \in 1..Len(CallsOfStage(k)) : CallsOfStage(k)[n].outcome # "Pending"
             /\ results[k].outcome = "succeeded"
                   <=> \A n \in 1..Len(CallsOfStage(k)) :
                          CallsOfStage(k)[n].outcome = "Success"
             /\ results[k].cause = "script_failure"
                   <=> \E n \in 1..Len(CallsOfStage(k)) :
                          CallsOfStage(k)[n].outcome # "Success"
    /\ \A c \in 1..Len(calls) :
          (calls[c].stage <= Len(results) /\ calls[c].outcome # "Success")
             => results[calls[c].stage].cause = "script_failure"

\* the first script of a parse stage could not be launched, the second one
\* succeeded, and the stage failed
C11_Witness ==
    /\ Len(results) >= 1
    /\ results[1].stage = "parse" /\ results[1].outcome = "failed"
    /\ Len(calls) = 2
    /\ calls[1].outcome = "LaunchError"
    /\ calls[2].outcome = "Success"

\* main() has logged its final summary and the process has exited
SummaryReached == pc = "exited" /\ stages_to_run_ordered # <<>>

\* C12: a stage that raised an unexpected error is recorded as failed, every
\* later stage other than setup is skipped, the exit code is 1; and a run
\* with a case name the validator accepts always reaches the final summary.
C12_UnexpectedIsFailure ==
    /\ [](\A k \in 1..Len(results) :
             results[k].cause = "unexpected" =>
                /\ results[k].outcome = "failed"
                /\ \A j \in (k + 1)..Len(results) :
                      results[j].stage # "setup" => results[j].outcome = "skipped"
                /\ pc = "stage" => stage_index < k
                /\ pc = "exited" => exit_code = 1)
    /\ (validate_case_name(case_name) ~> SummaryReached)

\* an unexpected error in the first stage, the second stage skipped, the
\* summary reached with exit code 1
C12_Witness ==
    /\ SummaryReached
    /\ exit_code = 1
    /\ Len(results) = 2
    /\ results[1].cause = "unexpected"
    /\ results[2].outcome = "skipped"

\* C13: with a case name that breaks the rules of the specification no
\* stage is processed, no run_script call is made and the exit code is 1.
C13_InvalidNameFailsFast ==
    ~NameAllowed(case_name) =>
       /\ results = <<>>
       /\ calls = <<>>
       /\ pc \notin {"loop", "stage"}
       /\ pc = "exited" => exit_code = 1

\* C14: validate_case_name accepts no string that is empty, has a character
\* outside [A-Za-z0-9_.-] or contains "..".
C14_RejectsUnsafe == pc = "accepted" => NameAllowed(case_name)

\* C15 as stated: every non-empty string of characters of [A-Za-z0-9_.-] is
\* accepted.
C15_AcceptsAllMatching ==
    (/\ pc \in {"accepted", "rejected"}
     /\ Len(case_name) > 0
     /\ \A k \in 1..Len(case_name) : case_name[k] \in AllowedChars)
    => pc = "accepted"

\* C15 amended: every non-empty string of characters of [A-Za-z0-9_.-] that
\* does not contain ".." is accepted.
C15_AcceptsAllowed ==
    (pc \in {"accepted", "rejected"} /\ NameAllowed(case_name)) => pc = "accepted"

\* a name with single periods has been accepted
C15_Witness == pc = "accepted" /\ case_name = <<".", "a", ".">>

\* the stage that made call c has ended as failed, if it has ended
CallFailedItsStage(c) ==
    calls[c].stage <= Len(results) => results[calls[c].stage].outcome = "failed"

\* C16: a call ends as Success exactly when the script file existed, a child
\* was started, the timeout did not elapse and the child exited with status
\* 0; a child that exited with a status n other than 0 in time gives
\* NonZeroExit reporting that n, and the stage fails.
C16_SuccessAndNonZeroExit ==
    \A c \in 1..Len(calls) :
       /\ calls[c].outcome = "Success"
             <=> (/\ calls[c].isfile /\ calls[c].launched /\ ~calls[c].expired
                  /\ calls[c].returncode = 0)
       /\ calls[c].returncode > 0
             => (/\ calls[c].outcome = "NonZeroExit"
                 /\ calls[c].code = calls[c].returncode
                 /\ CallFailedItsStage(c))
       /\ calls[c].outcome = "NonZeroExit"
             => (calls[c].returncode > 0 /\ ~calls[c].expired)

\* a child exited with the largest status and its stage has failed
C16_Witness ==
    \E c \in 1..Len(calls) :
       /\ calls[c].outcome = "NonZeroExit"
       /\ calls[c].code = MaxExitCode
       /\ calls[c].stage <= Len(results)

\* C17: a call whose script is not an existing file ends as NotFound, no
\* child is started for it, and its stage fails; NotFound is reported for
\* no other call.
C17_NotFoundNoLaunch ==
    \A c \in 1..Len(calls) :
       /\ ~calls[c].isfile
             => (/\ calls[c].outcome = "NotFound"
                 /\ ~calls[c].launched
                 /\ c \notin running
                 /\ CallFailedItsStage(c))
       /\ calls[c].outcome = "NotFound" => ~calls[c].isfile

\* the fetch script was missing and the acquire stage has failed
C17_Witness ==
    /\ Len(calls) = 1
    /\ ~calls[1].isfile
    /\ calls[1].script = "scraping/fetch_irs_990_forms.py"
    /\ Len(results) >= 1
    /\ results[1].outcome = "failed"
    /\ running = {}

\* C18: setup on a case whose directory tree is complete (as a first setup
\* leaves it) returns success and leaves the tree as it is; a directory that
\* exists is never the reason of a setup failure, and no step removes a
\* directory.
C18_SetupIdempotent ==
    /\ [](\A k \in 1..Len(results) : results[k].cause # "file_exists")
    /\ [][dirs \subseteq dirs']_vars
    /\ [][(/\ InLoop
           /\ stage_name = "setup"
           /\ AllDirs \subseteq dirs
           /\ Len(results') > Len(results)
           /\ results'[Len(results')].cause # "unexpected")
          => (/\ dirs' = dirs
              /\ results'[Len(results')].outcome = "succeeded")]_vars

\* requested [setup, setup]: both succeeded and the tree is complete
C18_Witness ==
    /\ Len(results) = 2
    /\ results[1].stage = "setup" /\ results[1].outcome = "succeeded"
    /\ results[2].stage = "setup" /\ results[2].outcome = "succeeded"
    /\ dirs = AllDirs

\* C19: a stage of acquire, datashare, parse or analyze that passed its
\* directory check with a sub-selector no script is mapped to has made no
\* run_script call and is recorded as succeeded; while no stage has failed
\* the success flag is true, no stage is skipped, and the exit code is 0.
C19_EmptyListSucceeds ==
    /\ \A k \in 1..Len(results) :
          (/\ results[k].stage \in {"acquire", "datashare", "parse", "analyze"}
           /\ results[k].checked
           /\ results[k].cause # "no_directory"
           /\ ExpectedCalls(results[k].stage) = 0)
          => (results[k].outcome = "succeeded" /\ CallsOfStage(k) = <<>>)
    /\ (\A k \in 1..Len(results) : results[k].outcome # "failed")
          => /\ pc \in {"loop", "stage"} => overall_workflow_success
             /\ \A k \in 1..Len(results) : results[k].outcome # "skipped"
             /\ SummaryReached => exit_code = 0

\* requested [acquire, analyze] with acquire type corporate: acquire
\* succeeded without a call and analyze went on to run its script
C19_Witness ==
    /\ stages_to_run_ordered = <<"acquire", "analyze">>
    /\ args["acquire_type"] = "corporate"
    /\ Len(results) >= 1
    /\ results[1].outcome = "succeeded"
    /\ Len(calls) = 1
    /\ calls[1].stage = 2
    /\ calls[1].launched

\* C20: once a setup of the run has succeeded the investigation directory
\* exists and no later stage fails for a missing directory.
C20_SetupCreatesDirectory ==
    \A j \in 1..Len(results) :
       (results[j].stage = "setup" /\ results[j].outcome = "succeeded")
       => /\ 0 \in dirs
          /\ \A k \in (j + 1)..Len(results) : results[k].cause # "no_directory"
          /\ pc = "stage" => stage_index > j

\* a run of all: setup succeeded and the acquire stage has launched its script
C20_Witness ==
    /\ stages_to_run_ordered = Canonical
    /\ Len(results) >= 1
    /\ results[1].stage = "setup" /\ results[1].outcome = "succeeded"
    /\ Len(calls) >= 1
    /\ calls[1].stage = 2
    /\ calls[1].script = "scraping/fetch_irs_990_forms.py"
    /\ calls[1].launched


\* C21: overall_workflow_success is monotone. It is true when the loop starts;
\* at every instant it is false exactly when a stage the loop attempted has
\* failed (a skipped or succeeded stage never changes it); and no step of the
\* run takes it from false back to true, whatever stages follow.
C21_FlagMonotone ==
    /\ [](overall_workflow_success
             <=> ~(\E k \in 1..Len(results) : results[k].outcome = "failed"))
    /\ []((pc = "loop" /\ results = <<>>) => overall_workflow_success)
    /\ [][~overall_workflow_success => ~overall_workflow_success']_vars

\* a stage failed, a later stage was attempted and succeeded, and the flag
\* is still false at the summary
C21_Witness ==
    /\ pc = "exited"
    /\ ~overall_workflow_success
    /\ \E j, k \in 1..Len(results) :
          /\ j < k
          /\ results[j].outcome = "failed"
          /\ results[k].outcome = "succeeded"

\* C22: when main() has logged its summary and exited, no child launched by
\* run_script during the run is still running.
C22_NoChildAtExit == pc = "exited" => running = {}

====
